---- MODULE Spec2Model ----
(***************************************************************************)
(* Model of src/ts/index.ts of quickjs-emscripten: the process-wide        *)
(* singleton module (getQuickJS / getQuickJSSync), the two module          *)
(* factories (newQuickJSWASMModule / newQuickJSAsyncWASMModule), the async *)
(* runtime/context constructors (newAsyncRuntime / newAsyncContext) and    *)
(* the deadline interrupt handler (shouldInterruptAfterDeadline).          *)
(*                                                                         *)
(* Every async function is modelled at the granularity of the JavaScript   *)
(* job queue: one action per synchronous segment between two awaits.       *)
(***************************************************************************)
EXTENDS Integers, Sequences, FiniteSets

VARIABLES
    singleton,         \* index.ts:34  module id, or undefined
    singletonPromise,  \* index.ts:35  [state, value]
    loads,             \* invocations of the two module factories, in call order
    modules,           \* modules[id] = wasmModule.type of the id-th instantiated module
    calls,             \* getQuickJS() invocations, in call order, each with the
                       \* state of singletonPromise it found
    lastSync,          \* outcome of the latest getQuickJSSync() call
    runtimes,          \* runtimes / contexts returned by newAsyncRuntime / newAsyncContext
    lastFault,         \* latest host fault raised by a suspending call
    now,               \* the value Date.now() returns
    clockWentBack,     \* the clock was set back since the handler was built
    handler,           \* closure returned by shouldInterruptAfterDeadline
    dateTime,          \* current [[DateValue]] of the Date object passed as deadline
    lastPoll,          \* latest invocation of the handler
    everTrue,          \* the handler has returned true at least once
    evalState          \* evaluation of an infinite loop polled by the handler

moduleVars == <<singleton, singletonPromise, loads, modules, calls, lastSync, runtimes, lastFault>>
deadlineVars == <<now, clockWentBack, handler, dateTime, lastPoll, everTrue, evalState>>
vars == <<singleton, singletonPromise, loads, modules, calls, lastSync, runtimes, lastFault,
          now, clockWentBack, handler, dateTime, lastPoll, everTrue, evalState>>

(***************************************************************************)
(* Bounds of the model.                                                    *)
(***************************************************************************)
MaxDirect == 2
MaxAsync == 2
MaxCalls == 2
MaxTime == 3

(***************************************************************************)
(* Values.                                                                 *)
(***************************************************************************)
\* `undefined` as the value of singleton; module ids start at 1.
undefined == 0

\* singletonPromise before the first getQuickJS() call.
NoPromise == [state |-> "undefined", value |-> undefined]

\* Who called the factory, i.e. which continuation awaits the load.
Purposes == {"getQuickJS", "direct", "newAsyncRuntime", "newAsyncContext"}

\* The error a failing load rejects with; one error object per load.
ErrorOf(l) == l

Load(kind, purpose) == [pc |-> "import", kind |-> kind, purpose |-> purpose, value |-> undefined]

LoadIds == 1..Len(loads)
CallIds == 1..Len(calls)
RuntimeIds == 1..Len(runtimes)

\* How many factory invocations were made on behalf of the callers in P.
NumLoads(P) == Cardinality({l \in LoadIds : loads[l].purpose \in P})

(***************************************************************************)
(* newQuickJSWASMModule / newQuickJSAsyncWASMModule, index.ts:80-116.      *)
(* Calling the factory runs it up to its first await (the dynamic imports) *)
(* and hands back a pending promise.                                       *)
(***************************************************************************)
StartLoad(kind, purpose) == loads' = Append(loads, Load(kind, purpose))

\* A direct call by the embedder.
newQuickJSWASMModule ==
    /\ NumLoads({"direct"}) < MaxDirect
    /\ StartLoad("sync", "direct")
    /\ UNCHANGED <<singleton, singletonPromise, modules, calls, lastSync, runtimes, lastFault, deadlineVars>>

newQuickJSAsyncWASMModule ==
    /\ NumLoads({"direct"}) < MaxDirect
    /\ StartLoad("async", "direct")
    /\ UNCHANGED <<singleton, singletonPromise, modules, calls, lastSync, runtimes, lastFault, deadlineVars>>

\* await Promise.all([import(...), import(...), import(...)]) settles.
LoadImports(l) ==
    /\ loads[l].pc = "import"
    /\ \/ loads' = [loads EXCEPT ![l].pc = "instantiate"]
       \/ loads' = [loads EXCEPT ![l].pc = "rejected", ![l].value = ErrorOf(l)]
    /\ UNCHANGED <<singleton, singletonPromise, modules, calls, lastSync, runtimes, lastFault, deadlineVars>>

\* Mutant: the factory keeps the module it built in the shared singleton.
LoadInstantiate_Caches(l) ==
    /\ loads[l].pc = "instantiate"
    /\ \/ /\ modules' = Append(modules, loads[l].kind)
          /\ loads' = [loads EXCEPT ![l].pc = "fulfilled", ![l].value = Len(modules) + 1]
          /\ singleton' = Len(modules) + 1
       \/ /\ loads' = [loads EXCEPT ![l].pc = "rejected", ![l].value = ErrorOf(l)]
          /\ UNCHANGED <<modules, singleton>>
    /\ UNCHANGED <<singletonPromise, calls, lastSync, runtimes, lastFault, deadlineVars>>

\* The id of the object `new QuickJSWASMModule(wasmModule, ffi)` creates.
NewModuleId == Len(modules) + 1

\* await wasmModuleLoader() settles; on success the module is tagged with its
\* type, wrapped and returned, which fulfils the factory's promise.
LoadInstantiate(l) ==
    /\ loads[l].pc = "instantiate"
    /\ \/ /\ modules' = Append(modules, loads[l].kind)
          /\ loads' = [loads EXCEPT ![l].pc = "fulfilled", ![l].value = NewModuleId]
       \/ /\ loads' = [loads EXCEPT ![l].pc = "rejected", ![l].value = ErrorOf(l)]
          /\ UNCHANGED modules
    /\ UNCHANGED <<singleton, singletonPromise, calls, lastSync, runtimes, lastFault, deadlineVars>>

(***************************************************************************)
(* getQuickJS, index.ts:52-58.                                             *)
(***************************************************************************)
\* Mutant: the guard tests `singleton` instead of `singletonPromise`.
getQuickJS_TestsSingleton ==
    /\ Len(calls) < MaxCalls
    /\ IF singleton = undefined
          THEN /\ StartLoad("sync", "getQuickJS")
               /\ singletonPromise' = [state |-> "pending", value |-> undefined]
          ELSE UNCHANGED <<loads, singletonPromise>>
    /\ calls' = Append(calls, [pc |-> "await", value |-> undefined,
                               found |-> singletonPromise.state])
    /\ UNCHANGED <<singleton, modules, lastSync, runtimes, lastFault, deadlineVars>>

\* Mutant: a rejected singletonPromise is replaced by a new load.
getQuickJS_Retries ==
    /\ Len(calls) < MaxCalls
    /\ IF singletonPromise.state \in {"undefined", "rejected"}
          THEN /\ StartLoad("sync", "getQuickJS")
               /\ singletonPromise' = [state |-> "pending", value |-> undefined]
          ELSE UNCHANGED <<loads, singletonPromise>>
    /\ calls' = Append(calls, [pc |-> "await", value |-> undefined,
                               found |-> singletonPromise.state])
    /\ UNCHANGED <<singleton, modules, lastSync, runtimes, lastFault, deadlineVars>>

\* The synchronous segment: singletonPromise ??= newQuickJSWASMModule().then(..),
\* then the call parks on `await singletonPromise`.
getQuickJS ==
    /\ Len(calls) < MaxCalls
    /\ IF singletonPromise = NoPromise
          THEN /\ StartLoad("sync", "getQuickJS")
               /\ singletonPromise' = [state |-> "pending", value |-> undefined]
          ELSE UNCHANGED <<loads, singletonPromise>>
    /\ calls' = Append(calls, [pc |-> "await", value |-> undefined,
                               found |-> singletonPromise.state])
    /\ UNCHANGED <<singleton, modules, lastSync, runtimes, lastFault, deadlineVars>>

\* Mutant: the reaction returns the instance without storing it.
SingletonThen_NoStore(l) ==
    /\ loads[l].purpose = "getQuickJS"
    /\ singletonPromise.state = "pending"
    /\ \/ /\ loads[l].pc = "fulfilled"
          /\ singletonPromise' = [state |-> "fulfilled", value |-> loads[l].value]
       \/ /\ loads[l].pc = "rejected"
          /\ singletonPromise' = [state |-> "rejected", value |-> loads[l].value]
    /\ UNCHANGED <<singleton, loads, modules, calls, lastSync, runtimes, lastFault, deadlineVars>>

\* The reaction registered by .then((instance) => { singleton = instance; return instance }).
\* A rejected load passes through .then (no rejection handler) unchanged.
SingletonThen(l) ==
    /\ loads[l].purpose = "getQuickJS"
    /\ singletonPromise.state = "pending"
    /\ \/ /\ loads[l].pc = "fulfilled"
          /\ singleton' = loads[l].value
          /\ singletonPromise' = [state |-> "fulfilled", value |-> loads[l].value]
       \/ /\ loads[l].pc = "rejected"
          /\ singletonPromise' = [state |-> "rejected", value |-> loads[l].value]
          /\ UNCHANGED singleton
    /\ UNCHANGED <<loads, modules, calls, lastSync, runtimes, lastFault, deadlineVars>>

\* `return await singletonPromise` resumes once singletonPromise has settled.
getQuickJSResume(c) ==
    /\ calls[c].pc = "await"
    /\ singletonPromise.state \in {"fulfilled", "rejected"}
    /\ calls' = [calls EXCEPT ![c].pc = IF singletonPromise.state = "fulfilled"
                                            THEN "resolved" ELSE "rejected",
                              ![c].value = singletonPromise.value]
    /\ UNCHANGED <<singleton, singletonPromise, loads, modules, lastSync, runtimes, lastFault, deadlineVars>>

(***************************************************************************)
(* getQuickJSSync, index.ts:65-70.                                         *)
(***************************************************************************)
\* What a call made in the current state does.
getQuickJSSyncResult ==
    IF singleton = undefined
       THEN [kind |-> "threw", value |-> undefined]
       ELSE [kind |-> "returned", value |-> singleton]

getQuickJSSync ==
    /\ lastSync' = getQuickJSSyncResult
    /\ UNCHANGED <<singleton, singletonPromise, loads, modules, calls, runtimes, lastFault, deadlineVars>>

(***************************************************************************)
(* newAsyncRuntime, index.ts:129-132, and newAsyncContext, index.ts:146-149.*)
(***************************************************************************)
\* The synchronous segment: the call to newQuickJSAsyncWASMModule().
newAsyncRuntime ==
    /\ NumLoads({"newAsyncRuntime", "newAsyncContext"}) < MaxAsync
    /\ StartLoad("async", "newAsyncRuntime")
    /\ UNCHANGED <<singleton, singletonPromise, modules, calls, lastSync, runtimes, lastFault, deadlineVars>>

newAsyncContext ==
    /\ NumLoads({"newAsyncRuntime", "newAsyncContext"}) < MaxAsync
    /\ StartLoad("async", "newAsyncContext")
    /\ UNCHANGED <<singleton, singletonPromise, modules, calls, lastSync, runtimes, lastFault, deadlineVars>>

\* Mutant: the async module is built once and reused by later constructors.
ModuleFor_Shared(l) ==
    LET first == CHOOSE k \in LoadIds :
                     /\ loads[k].kind = "async"
                     /\ loads[k].pc \in {"fulfilled", "returned"}
                     /\ \A j \in LoadIds : (loads[j].kind = "async"
                                             /\ loads[j].pc \in {"fulfilled", "returned"})
                                            => loads[k].value <= loads[j].value
    IN  loads[first].value

\* The module a constructor builds its runtime / context in: the one its own
\* `await newQuickJSAsyncWASMModule()` produced.
ModuleFor(l) == loads[l].value

\* After the await: `return module.newRuntime(options)` or
\* `return module.newContext(options)` (a context comes with its own runtime).
AsyncResume(l) ==
    /\ loads[l].purpose \in {"newAsyncRuntime", "newAsyncContext"}
    /\ loads[l].pc = "fulfilled"
    /\ runtimes' = Append(runtimes, [module |-> ModuleFor(l), via |-> loads[l].purpose,
                                     state |-> "Idle"])
    /\ loads' = [loads EXCEPT ![l].pc = "returned"]
    /\ UNCHANGED <<singleton, singletonPromise, modules, calls, lastSync, lastFault, deadlineVars>>

(***************************************************************************)
(* Cooperative suspension bridge of the async engine variant (spec 4.6).   *)
(* Its code lives in runtime-asyncify and module-asyncify, outside         *)
(* index.ts; it is modelled from the design: one slot per engine module    *)
(* instance, Idle -> Running -> Suspended -> Running -> ... -> Idle.       *)
(***************************************************************************)
\* The single suspension slot of module m is taken.
SlotBusy(m) == \E r \in RuntimeIds : runtimes[r].module = m /\ runtimes[r].state = "Suspended"

\* What a suspending call issued on runtime r does in the current state.
SuspendOutcome(r) == IF SlotBusy(runtimes[r].module) THEN "ReentrantSuspension" ELSE "ok"

\* An evaluation call enters the engine.
EvalStart(r) ==
    /\ runtimes[r].state = "Idle"
    /\ runtimes' = [runtimes EXCEPT ![r].state = "Running"]
    /\ UNCHANGED <<singleton, singletonPromise, loads, modules, calls, lastSync, lastFault, deadlineVars>>

\* A suspending call is issued on runtime r: by the running evaluation, or by
\* a second evaluation call the host makes while the first is suspended.
SuspendingCall(r) ==
    /\ runtimes[r].state \in {"Running", "Suspended"}
    /\ IF SuspendOutcome(r) = "ok"
          THEN /\ runtimes' = [runtimes EXCEPT ![r].state = "Suspended"]
               /\ UNCHANGED lastFault
          ELSE /\ lastFault' = [kind |-> SuspendOutcome(r), runtime |-> r,
                                reentered |-> runtimes[r].state = "Suspended"]
               /\ UNCHANGED runtimes
    /\ UNCHANGED <<singleton, singletonPromise, loads, modules, calls, lastSync, deadlineVars>>

\* The awaited host value settles and the paused stack is resumed.
Resume(r) ==
    /\ runtimes[r].state = "Suspended"
    /\ runtimes' = [runtimes EXCEPT ![r].state = "Running"]
    /\ UNCHANGED <<singleton, singletonPromise, loads, modules, calls, lastSync, lastFault, deadlineVars>>

\* The evaluation call returns.
EvalFinish(r) ==
    /\ runtimes[r].state = "Running"
    /\ runtimes' = [runtimes EXCEPT ![r].state = "Idle"]
    /\ UNCHANGED <<singleton, singletonPromise, loads, modules, calls, lastSync, lastFault, deadlineVars>>

(***************************************************************************)
(* shouldInterruptAfterDeadline, index.ts:157-163.                         *)
(*                                                                         *)
(* A JavaScript number is an integer of the model or NaN (the time value   *)
(* of an invalid Date); every comparison with NaN is false.                *)
(***************************************************************************)
Num(n) == [nan |-> FALSE, n |-> n]
NaN == [nan |-> TRUE, n |-> 0]

\* The instants of the model's clock, in milliseconds.
Times == 0..MaxTime
Numbers == {Num(n) : n \in Times} \cup {NaN}

\* a > b on JavaScript numbers.
GreaterThan(a, b) == ~a.nan /\ ~b.nan /\ a.n > b.n

\* The two shapes of the `deadline: Date | number` argument.
NumberArg(v) == [type |-> "number", num |-> v, date |-> [time |-> NaN]]
DateArg(t) == [type |-> "Date", num |-> NaN, date |-> [time |-> t]]

\* Date.prototype.getTime
getTime(date) == date.time

\* Mutant: a number is taken as a duration counted from the call.
shouldInterruptAfterDeadline_Duration(deadline) ==
    [deadlineAsNumber |-> IF deadline.type = "number"
                             THEN (IF deadline.num.nan THEN NaN ELSE Num(now + deadline.num.n))
                             ELSE getTime(deadline.date)]

\* The closure the constructor returns: it captures deadlineAsNumber.
shouldInterruptAfterDeadline(deadline) ==
    [deadlineAsNumber |-> IF deadline.type = "number"
                             THEN deadline.num
                             ELSE getTime(deadline.date)]

\* Mutant: the comparison is not strict.
InterruptHandler_NotStrict(closure, clock) ==
    \/ GreaterThan(Num(clock), closure.deadlineAsNumber)
    \/ Num(clock) = closure.deadlineAsNumber

\* Mutant: the Date is read again on every poll instead of once.
InterruptHandler_ReadsDateOnPoll(closure, clock) ==
    GreaterThan(Num(clock), IF handler.arg.type = "Date" THEN dateTime
                                                         ELSE closure.deadlineAsNumber)

\* The returned function: `return Date.now() > deadlineAsNumber`.
InterruptHandler(closure, clock) == GreaterThan(Num(clock), closure.deadlineAsNumber)

NoHandler ==
    [made |-> FALSE, closure |-> [deadlineAsNumber |-> NaN], arg |-> NumberArg(NaN),
     meaning |-> "absolute", createdAt |-> 0]

NoPoll == [polled |-> FALSE, by |-> "nobody", at |-> 0, result |-> FALSE]

\* A caller builds a handler.  `meaning` is what the caller takes a number to
\* denote: an absolute time, or a duration counted from now.
Construct(deadline, meaning) ==
    /\ ~handler.made
    /\ handler' = [made |-> TRUE, closure |-> shouldInterruptAfterDeadline(deadline),
                   arg |-> deadline, meaning |-> meaning, createdAt |-> now]
    /\ dateTime' = getTime(deadline.date)
    /\ clockWentBack' = FALSE
    /\ UNCHANGED <<now, lastPoll, everTrue, evalState, moduleVars>>

\* The handler is invoked.
PollHandler ==
    /\ handler.made
    /\ evalState # "running"
    /\ lastPoll' = [polled |-> TRUE, by |-> "caller", at |-> now,
                    result |-> InterruptHandler(handler.closure, now)]
    /\ everTrue' = (everTrue \/ InterruptHandler(handler.closure, now))
    /\ UNCHANGED <<now, clockWentBack, handler, dateTime, evalState, moduleVars>>

\* Date.now() advances.
Tick ==
    /\ now < MaxTime
    /\ now' = now + 1
    /\ UNCHANGED <<clockWentBack, handler, dateTime, lastPoll, everTrue, evalState, moduleVars>>

\* The system clock is set back.
ClockSetBack ==
    /\ now > 0
    /\ now' \in 0..(now - 1)
    /\ clockWentBack' = TRUE
    /\ UNCHANGED <<handler, dateTime, lastPoll, everTrue, evalState, moduleVars>>

\* The caller changes the Date object it passed (Date.prototype.setTime).
SetTime(t) ==
    /\ handler.made
    /\ handler.arg.type = "Date"
    /\ t # dateTime
    /\ dateTime' = t
    /\ UNCHANGED <<now, clockWentBack, handler, lastPoll, everTrue, evalState, moduleVars>>

(***************************************************************************)
(* The engine side of the interrupt handler (spec 4.3): the handler is     *)
(* installed on a runtime, the engine polls it while a script runs, and a  *)
(* true result aborts the script with an Interrupted fault.  That code     *)
(* lives in runtime.ts, outside index.ts; it is modelled from the design.  *)
(***************************************************************************)
EvalInfiniteLoop ==
    /\ handler.made
    /\ evalState = "none"
    /\ evalState' = "running"
    /\ UNCHANGED <<now, clockWentBack, handler, dateTime, lastPoll, everTrue, moduleVars>>

EnginePoll ==
    /\ handler.made
    /\ evalState = "running"
    /\ lastPoll' = [polled |-> TRUE, by |-> "engine", at |-> now,
                    result |-> InterruptHandler(handler.closure, now)]
    /\ everTrue' = (everTrue \/ InterruptHandler(handler.closure, now))
    /\ evalState' = IF InterruptHandler(handler.closure, now) THEN "Interrupted" ELSE "running"
    /\ UNCHANGED <<now, clockWentBack, handler, dateTime, moduleVars>>

(***************************************************************************)
(* The module side of the program.                                         *)
(***************************************************************************)
InitModules ==
    /\ singleton = undefined
    /\ singletonPromise = NoPromise
    /\ loads = <<>>
    /\ modules = <<>>
    /\ calls = <<>>
    /\ lastSync = [kind |-> "none", value |-> undefined]
    /\ runtimes = <<>>
    /\ lastFault = [kind |-> "none", runtime |-> 0, reentered |-> FALSE]

\* The state an earlier `await getQuickJS()` leaves behind.
InitModulesLoaded ==
    /\ singleton = 1
    /\ singletonPromise = [state |-> "fulfilled", value |-> 1]
    /\ loads = <<[pc |-> "fulfilled", kind |-> "sync", purpose |-> "getQuickJS", value |-> 1]>>
    /\ modules = <<"sync">>
    /\ calls = <<[pc |-> "resolved", value |-> 1, found |-> "undefined"]>>
    /\ lastSync = [kind |-> "none", value |-> undefined]
    /\ runtimes = <<>>
    /\ lastFault = [kind |-> "none", runtime |-> 0, reentered |-> FALSE]

InitDeadline ==
    /\ now = 0
    /\ clockWentBack = FALSE
    /\ handler = NoHandler
    /\ dateTime = NaN
    /\ lastPoll = NoPoll
    /\ everTrue = FALSE
    /\ evalState = "none"

Init == InitModules /\ InitDeadline

\* The singleton and the module factories called directly.
Next ==
    \/ getQuickJS
    \/ getQuickJSSync
    \/ newQuickJSWASMModule
    \/ newQuickJSAsyncWASMModule
    \/ \E l \in LoadIds : LoadImports(l)
    \/ \E l \in LoadIds : LoadInstantiate(l)
    \/ \E l \in LoadIds : SingletonThen(l)
    \/ \E c \in CallIds : getQuickJSResume(c)

Spec == Init /\ [][Next]_vars

\* The async runtime / context constructors and the runtimes they return, in
\* a process that has or has not initialised the singleton before.
InitAsync == (InitModules \/ InitModulesLoaded) /\ InitDeadline

NextAsync ==
    \/ newAsyncRuntime
    \/ newAsyncContext
    \/ \E l \in LoadIds : LoadImports(l)
    \/ \E l \in LoadIds : LoadInstantiate(l)
    \/ \E l \in LoadIds : AsyncResume(l)
    \/ \E r \in RuntimeIds : EvalStart(r)
    \/ \E r \in RuntimeIds : SuspendingCall(r)
    \/ \E r \in RuntimeIds : Resume(r)
    \/ \E r \in RuntimeIds : EvalFinish(r)

SpecAsync == InitAsync /\ [][NextAsync]_vars

\* The deadline handler, its clock and the evaluation it guards.
NextDeadline ==
    \/ \E v \in Numbers, m \in {"absolute", "duration"} : Construct(NumberArg(v), m)
    \/ \E t \in Numbers : Construct(DateArg(t), "absolute")
    \/ PollHandler
    \/ Tick
    \/ ClockSetBack
    \/ \E t \in Numbers : SetTime(t)
    \/ EvalInfiniteLoop
    \/ EnginePoll

SpecDeadline == Init /\ [][NextDeadline]_vars

\* The engine keeps polling the handler while a script runs.
SpecDeadlineLive == Init /\ [][NextDeadline]_vars /\ WF_vars(EnginePoll)

(***************************************************************************)
(* Properties of the singleton accessor.                                   *)
(***************************************************************************)
Settled(l) == loads[l].pc \in {"fulfilled", "returned"}
SingletonLoads == {l \in LoadIds : loads[l].purpose = "getQuickJS"}
DirectLoads == {l \in LoadIds : loads[l].purpose = "direct"}
Resolved(c) == calls[c].pc = "resolved"

\* C1: getQuickJSSync throws the initialization-order error in every state in
\* which no getQuickJS call has completed successfully yet (a load in flight
\* included), and what it returns otherwise is a fully built module.
C1_SyncThrowsUntilGetQuickJSResolves ==
    /\ (\A c \in CallIds : ~Resolved(c)) => getQuickJSSyncResult.kind = "threw"
    /\ getQuickJSSyncResult.kind = "returned" =>
          getQuickJSSyncResult.value \in 1..Len(modules)

\* C2: however many getQuickJS calls are made and however they interleave with
\* the load, the factory is invoked at most once for the singleton and every
\* call that resolves resolves with that one instance.
C2_SharedModuleInstantiatedOnce ==
    /\ Cardinality(SingletonLoads) <= 1
    /\ \A c \in CallIds : Resolved(c) =>
          /\ calls[c].value = singleton
          /\ \A l \in SingletonLoads : Settled(l) /\ loads[l].value = calls[c].value
    /\ \A c, d \in CallIds : Resolved(c) /\ Resolved(d) => calls[c].value = calls[d].value

\* C2 witness: two calls, the second issued while the load was pending, have
\* both resolved.
C2_Witness ==
    /\ Len(calls) >= 2
    /\ calls[2].found = "pending"
    /\ Resolved(1) /\ Resolved(2)

\* C3: nothing is loaded for the singleton before the first getQuickJS call;
\* once a call has resolved with m the singleton is m from then on, so
\* getQuickJSSync returns m and later getQuickJS calls resolve with m.
C3_StateInv ==
    /\ calls = <<>> =>
          /\ SingletonLoads = {}
          /\ singleton = undefined
          /\ singletonPromise = NoPromise
    /\ \A c \in CallIds : Resolved(c) =>
          /\ singleton = calls[c].value
          /\ singleton # undefined
          /\ getQuickJSSyncResult = [kind |-> "returned", value |-> calls[c].value]
          /\ singletonPromise = [state |-> "fulfilled", value |-> calls[c].value]

C3_CreatedOnFirstRequestNeverTornDown ==
    /\ []C3_StateInv
    /\ [][singleton # undefined => singleton' = singleton]_vars

\* C3 witness: a call issued after the singleton was set has resolved, and
\* getQuickJSSync has returned the module, after direct factory calls built
\* other modules.
C3_Witness ==
    /\ \E c \in CallIds : Resolved(c) /\ calls[c].found = "fulfilled"
    /\ lastSync.kind = "returned"
    /\ Len(modules) >= 2

\* A step of a direct call to one of the two factories.
DirectStep ==
    \/ newQuickJSWASMModule
    \/ newQuickJSAsyncWASMModule
    \/ \E l \in DirectLoads : LoadImports(l) \/ LoadInstantiate(l)

\* C4: a direct factory call yields a fresh instance, of the type asked for,
\* distinct from the singleton and from the instance of every other call, and
\* no step of it changes singleton or singletonPromise.
C4_StateInv ==
    /\ \A l \in DirectLoads : Settled(l) =>
          /\ loads[l].value # singleton
          /\ loads[l].value \in 1..Len(modules)
          /\ modules[loads[l].value] = loads[l].kind
          /\ \A k \in LoadIds \ {l} : Settled(k) => loads[k].value # loads[l].value
    /\ singleton # undefined => \E l \in SingletonLoads : loads[l].value = singleton
    /\ SingletonLoads = {} => getQuickJSSyncResult.kind = "threw"

C4_DirectCallsAreFreshAndLeaveSingleton ==
    /\ []C4_StateInv
    /\ [][DirectStep => UNCHANGED <<singleton, singletonPromise>>]_vars

\* C4 witness: the singleton is set and two direct calls, one per factory,
\* have produced their modules.
C4_Witness ==
    /\ singleton # undefined
    /\ \E l, k \in DirectLoads :
          /\ Settled(l) /\ Settled(k)
          /\ loads[l].kind = "sync" /\ loads[k].kind = "async"

\* C10: when the load started by the first getQuickJS call fails, the failure
\* stays: no other load is started, the singleton stays unset, getQuickJSSync
\* throws, and every call that settles is rejected with that same error.
FirstLoadFailed == \E l \in SingletonLoads : loads[l].pc = "rejected"

C10_StateInv ==
    FirstLoadFailed =>
       /\ Cardinality(SingletonLoads) = 1
       /\ singleton = undefined
       /\ getQuickJSSyncResult.kind = "threw"
       /\ singletonPromise.state \in {"pending", "rejected"}
       /\ \A c \in CallIds :
             /\ calls[c].pc \in {"await", "rejected"}
             /\ calls[c].pc = "rejected" =>
                   /\ singletonPromise.state = "rejected"
                   /\ calls[c].value = singletonPromise.value
                   /\ \A l \in SingletonLoads : calls[c].value = ErrorOf(l)

C10_FailedLoadIsCached ==
    /\ []C10_StateInv
    /\ [][FirstLoadFailed => FirstLoadFailed' /\ (singletonPromise.state = "rejected"
                                                  => singletonPromise' = singletonPromise)]_vars

\* C10 witness: a call issued after the rejection has itself been rejected,
\* and getQuickJSSync has thrown.
C10_Witness ==
    /\ singletonPromise.state = "rejected"
    /\ \E c \in CallIds : calls[c].found = "rejected" /\ calls[c].pc = "rejected"
    /\ lastSync.kind = "threw"

(***************************************************************************)
(* Properties of the async constructors.                                   *)
(***************************************************************************)
\* C5: the runtimes and contexts returned by newAsyncRuntime / newAsyncContext
\* each live in an async module of their own, never in the shared singleton.
C5_OneAsyncModulePerRuntime ==
    /\ \A r \in RuntimeIds :
          /\ runtimes[r].module \in 1..Len(modules)
          /\ modules[runtimes[r].module] = "async"
          /\ runtimes[r].module # singleton
    /\ \A r, q \in RuntimeIds : r # q => runtimes[r].module # runtimes[q].module

\* C5 witness: the singleton is initialised, and a runtime and a context have
\* been returned.
C5_Witness ==
    /\ singleton # undefined
    /\ \E r, q \in RuntimeIds :
          /\ runtimes[r].via = "newAsyncRuntime"
          /\ runtimes[q].via = "newAsyncContext"

\* C6: a suspending call on a runtime that is still suspended raises
\* ReentrantSuspension; one on another runtime, built by a separate
\* constructor call, succeeds while the first is suspended.
C6_SuspensionExclusivity ==
    /\ \A r \in RuntimeIds :
          runtimes[r].state = "Suspended" => SuspendOutcome(r) = "ReentrantSuspension"
    /\ \A r, q \in RuntimeIds :
          (r # q /\ runtimes[r].state = "Suspended" /\ runtimes[q].state = "Running")
             => SuspendOutcome(q) = "ok"
    /\ lastFault.kind # "none" =>
          /\ lastFault.kind = "ReentrantSuspension"
          /\ lastFault.reentered

\* C6 witness: a re-entrant call has faulted, and two runtimes are suspended
\* at the same time.
C6_Witness ==
    /\ lastFault.kind = "ReentrantSuspension"
    /\ \E r, q \in RuntimeIds :
          /\ r # q
          /\ runtimes[r].state = "Suspended"
          /\ runtimes[q].state = "Suspended"

(***************************************************************************)
(* Properties of the deadline interrupt handler.                           *)
(***************************************************************************)
\* The millisecond timestamp the argument stood for when the handler was
\* built: the number itself, or the Date's time value at that moment.
Given == IF handler.arg.type = "number" THEN handler.arg.num ELSE handler.arg.date.time

\* The deadline the caller meant: a duration is counted from the call.
Denoted ==
    IF handler.meaning = "duration" /\ ~Given.nan
       THEN Num(handler.createdAt + Given.n)
       ELSE Given

\* C7 as claimed: whether the deadline was given as an absolute time or as a
\* duration, no poll made before the deadline it denotes has passed requests
\* interruption.
C7_NoInterruptBeforeDenotedDeadline ==
    (lastPoll.polled /\ ~Denoted.nan /\ lastPoll.at <= Denoted.n) => ~lastPoll.result

\* C7 as amended: the deadline is a Date or a number of epoch milliseconds,
\* an absolute time in both cases, and no poll made before that time has
\* passed requests interruption.
C7_NoInterruptBeforeAbsoluteDeadline ==
    (lastPoll.polled /\ ~Given.nan /\ lastPoll.at <= Given.n) => ~lastPoll.result

\* C7 witness: a handler built from a Date after the clock had advanced was
\* polled before its deadline and did not interrupt.
C7_Witness ==
    /\ handler.made
    /\ handler.arg.type = "Date"
    /\ handler.createdAt > 0
    /\ lastPoll.polled
    /\ ~Given.nan
    /\ lastPoll.at < Given.n
    /\ ~lastPoll.result

\* The deadline was already in the past when the handler was built.
PastDeadline == handler.made /\ ~Given.nan /\ Given.n < handler.createdAt

\* C8: a handler built from a past deadline returns true on its first and on
\* every later poll while the clock does not go back; a handler that has
\* returned true keeps returning true while the clock does not go back; and
\* an infinite loop polled by such a handler ends Interrupted.
C8_StateInv ==
    /\ (PastDeadline /\ ~clockWentBack) =>
          /\ InterruptHandler(handler.closure, now)
          /\ lastPoll.polled => lastPoll.result
          /\ lastPoll.by = "engine" => evalState = "Interrupted"
    /\ (everTrue /\ ~clockWentBack) =>
          /\ InterruptHandler(handler.closure, now)
          /\ lastPoll.result

C8_PastDeadlineInterrupts ==
    /\ []C8_StateInv
    /\ (evalState = "running" /\ PastDeadline /\ ~clockWentBack)
          ~> (evalState = "Interrupted" \/ clockWentBack)

\* C8 witness: the infinite loop was interrupted by a handler built from a
\* past deadline, at a poll later than the construction.
C8_Witness ==
    /\ PastDeadline
    /\ ~clockWentBack
    /\ evalState = "Interrupted"
    /\ lastPoll.result
    /\ lastPoll.at > handler.createdAt

\* C9: each poll returns true exactly when the clock, in milliseconds, is
\* strictly greater than the deadline as it was at construction (a Date by
\* its time value, a number as is).
C9_TrueIffClockStrictlyAfterDeadline ==
    /\ lastPoll.polled => (lastPoll.result <=> (~Given.nan /\ lastPoll.at > Given.n))
    /\ handler.made =>
          (InterruptHandler(handler.closure, now) <=> (~Given.nan /\ now > Given.n))

\* C9 witness: a handler built from a Date, whose Date object was changed
\* afterwards, was polled at exactly the original deadline and returned false.
C9_Witness ==
    /\ handler.made
    /\ handler.arg.type = "Date"
    /\ dateTime # Given
    /\ lastPoll.polled
    /\ ~Given.nan
    /\ lastPoll.at = Given.n
    /\ ~lastPoll.result

====
